---- MODULE Spec2Model ----
(***************************************************************************)
(* A model of the Pure note-taking app: the Note Store (src/src/store.js)  *)
(* over localStorage and JSON, and the debounce primitive (src/src/ui.js). *)
(*                                                                         *)
(* JavaScript values are tagged records.  A JavaScript string that is used *)
(* as serialized data is kept as the sequence of its JSON tokens (Text);   *)
(* every other string is an atom (Str).                                    *)
(***************************************************************************)
EXTENDS Integers, Sequences, FiniteSets, TLC

(***************************************************************************)
(* JavaScript values                                                       *)
(***************************************************************************)
Undefined == [t |-> "undefined"]
Null      == [t |-> "null"]
Str(s)    == [t |-> "string", s |-> s]
Num(n)    == [t |-> "number", n |-> n]
Bool(b)   == [t |-> "boolean", b |-> b]
Arr(a)    == [t |-> "array", a |-> a]
Obj(f)    == [t |-> "object", f |-> f]
\* an object that refers to itself (JSON.stringify throws a TypeError on it)
Cyclic    == [t |-> "cyclic"]
\* a string holding serialized data: the sequence of its tokens
Text(x)   == [t |-> "text", x |-> x]

\* typeof v
TypeOf(v) ==
  CASE v.t \in {"string", "text"}            -> "string"
    [] v.t \in {"array", "object", "cyclic", "null"} -> "object"
    [] OTHER                                  -> v.t

\* Array.isArray(v)
IsArray(v) == v.t = "array"

\* the truthiness test of `note && ...` and `!data`
Truthy(v) ==
  CASE v.t \in {"undefined", "null"} -> FALSE
    [] v.t = "boolean"               -> v.b
    [] v.t = "string"                -> v.s # ""
    [] v.t = "text"                  -> v.x # <<>>
    [] v.t = "number"                -> v.n \notin {"0", "NaN"}
    [] OTHER                         -> TRUE

\* note.id, note.title, ...: a missing property reads as undefined
Prop(v, k) == IF v.t = "object" /\ k \in DOMAIN v.f THEN v.f[k] ELSE Undefined

(***************************************************************************)
(* JSON text: a sequence of tokens                                         *)
(***************************************************************************)
Tok(k, v) == [k |-> k, v |-> v]
LBrack == Tok("[", "")
RBrack == Tok("]", "")
LBrace == Tok("{", "")
RBrace == Tok("}", "")
Comma  == Tok(",", "")
Colon  == Tok(":", "")
\* white space (the line breaks and indentation of pretty printing)
WS     == Tok("ws", "")
\* characters that belong to no JSON token
Junk   == Tok("junk", "")
StrTok(s) == Tok("str", s)
NumTok(n) == Tok("num", n)
LitTok(l) == Tok("lit", l)

\* the order in which the properties of a record are written out
KeyOrder == <<"id", "title", "content", "createdAt", "updatedAt", "tag", "not", "missing">>

\* ---- JSON.stringify(value, null, gap) --------------------------------
\* gap = TRUE is the pretty printing of JSON.stringify(v, null, 2).
\* The result is [st |-> "ok" | "undefined" | "throw", x |-> tokens].
SerOk(x)  == [st |-> "ok", x |-> x]
SerUndef  == [st |-> "undefined", x |-> <<>>]
SerThrow  == [st |-> "throw", x |-> <<>>]
Indent(gap) == IF gap THEN <<WS>> ELSE <<>>

RECURSIVE SerializeJSONProperty(_, _)
RECURSIVE SerializeJSONArray(_, _, _)
RECURSIVE SerializeJSONObject(_, _, _, _)

SerializeJSONProperty(v, gap) ==
  CASE v.t = "undefined" -> SerUndef
    [] v.t = "null"      -> SerOk(<<LitTok("null")>>)
    [] v.t = "boolean"   -> SerOk(<<LitTok(IF v.b THEN "true" ELSE "false")>>)
    [] v.t = "string"    -> SerOk(<<StrTok(v.s)>>)
    [] v.t = "number"    -> IF v.n \in {"NaN", "Infinity"}
                            THEN SerOk(<<LitTok("null")>>)
                            ELSE SerOk(<<NumTok(v.n)>>)
    [] v.t = "cyclic"    -> SerThrow
    [] v.t = "array"     ->
         IF v.a = <<>> THEN SerOk(<<LBrack, RBrack>>)
         ELSE LET r == SerializeJSONArray(v.a, 1, gap)
              IN  IF r.st = "throw" THEN SerThrow
                  ELSE SerOk(<<LBrack>> \o r.x \o Indent(gap) \o <<RBrack>>)
    [] v.t = "object"    ->
         LET r == SerializeJSONObject(v.f, 1, gap, TRUE)
         IN  IF r.st = "throw" THEN SerThrow
             ELSE IF r.x = <<>> THEN SerOk(<<LBrace, RBrace>>)
             ELSE SerOk(<<LBrace>> \o r.x \o Indent(gap) \o <<RBrace>>)
    [] OTHER             -> SerThrow

\* the elements of a from index i on; an element without a JSON form is null
SerializeJSONArray(a, i, gap) ==
  IF i > Len(a) THEN SerOk(<<>>)
  ELSE LET e    == SerializeJSONProperty(a[i], gap)
           rest == SerializeJSONArray(a, i + 1, gap)
           sep  == IF i = 1 THEN <<>> ELSE <<Comma>>
           item == IF e.st = "undefined" THEN <<LitTok("null")>> ELSE e.x
       IN  IF e.st = "throw" \/ rest.st = "throw" THEN SerThrow
           ELSE SerOk(sep \o Indent(gap) \o item \o rest.x)

\* the properties of f from KeyOrder[i] on; a property without a JSON form
\* (undefined) is left out
SerializeJSONObject(f, i, gap, first) ==
  IF i > Len(KeyOrder) THEN SerOk(<<>>)
  ELSE LET k == KeyOrder[i]
       IN  IF k \notin DOMAIN f THEN SerializeJSONObject(f, i + 1, gap, first)
           ELSE LET e == SerializeJSONProperty(f[k], gap)
                IN  IF e.st = "throw" THEN SerThrow
                    ELSE IF e.st = "undefined"
                         THEN SerializeJSONObject(f, i + 1, gap, first)
                    ELSE LET rest == SerializeJSONObject(f, i + 1, gap, FALSE)
                             sep  == IF first THEN <<>> ELSE <<Comma>>
                         IN  IF rest.st = "throw" THEN SerThrow
                             ELSE SerOk(sep \o Indent(gap) \o <<StrTok(k), Colon>>
                                        \o Indent(gap) \o e.x \o rest.x)

\* JSON.stringify(v, null, gap ? 2 : undefined)
JSONstringify(v, gap) == SerializeJSONProperty(v, gap)

\* ---- JSON.parse(text) ------------------------------------------------
\* The result of a parsing step is [ok, v, i]: the value and the position
\* after it.
ParseFail == [ok |-> FALSE, v |-> Undefined, i |-> 0]
ParseOk(v, i) == [ok |-> TRUE, v |-> v, i |-> i]

RECURSIVE SkipWS(_, _)
SkipWS(x, i) == IF i <= Len(x) /\ x[i] = WS THEN SkipWS(x, i + 1) ELSE i

RECURSIVE ParseValue(_, _)
RECURSIVE ParseElements(_, _, _)
RECURSIVE ParseMembers(_, _, _)

ParseValue(x, i0) ==
  LET i == SkipWS(x, i0)
  IN  IF i > Len(x) THEN ParseFail
      ELSE CASE x[i].k = "str" -> ParseOk(Str(x[i].v), i + 1)
             [] x[i].k = "num" -> ParseOk(Num(x[i].v), i + 1)
             [] x[i].k = "lit" ->
                  (CASE x[i].v = "null"  -> ParseOk(Null, i + 1)
                     [] x[i].v = "true"  -> ParseOk(Bool(TRUE), i + 1)
                     [] x[i].v = "false" -> ParseOk(Bool(FALSE), i + 1)
                     [] OTHER            -> ParseFail)
             [] x[i].k = "[" ->
                  LET j == SkipWS(x, i + 1)
                  IN  IF j <= Len(x) /\ x[j] = RBrack
                      THEN ParseOk(Arr(<<>>), j + 1)
                      ELSE ParseElements(x, j, <<>>)
             [] x[i].k = "{" ->
                  LET j == SkipWS(x, i + 1)
                  IN  IF j <= Len(x) /\ x[j] = RBrace
                      THEN ParseOk(Obj(<<>>), j + 1)
                      ELSE ParseMembers(x, j, <<>>)
             [] OTHER -> ParseFail

\* value (, value)* ]
ParseElements(x, i, acc) ==
  LET e == ParseValue(x, i)
  IN  IF ~e.ok THEN ParseFail
      ELSE LET j == SkipWS(x, e.i)
           IN  IF j > Len(x) THEN ParseFail
               ELSE IF x[j] = RBrack THEN ParseOk(Arr(Append(acc, e.v)), j + 1)
               ELSE IF x[j] = Comma THEN ParseElements(x, j + 1, Append(acc, e.v))
               ELSE ParseFail

\* "key" : value (, "key" : value)* }   (a repeated key keeps its last value)
ParseMembers(x, i0, acc) ==
  LET i == SkipWS(x, i0)
  IN  IF i > Len(x) \/ x[i].k # "str" THEN ParseFail
      ELSE LET c == SkipWS(x, i + 1)
           IN  IF c > Len(x) \/ x[c] # Colon THEN ParseFail
               ELSE LET e == ParseValue(x, c + 1)
                    IN  IF ~e.ok THEN ParseFail
                        ELSE LET j == SkipWS(x, e.i)
                                 f == [k \in (DOMAIN acc) \cup {x[i].v} |->
                                         IF k = x[i].v THEN e.v ELSE acc[k]]
                             IN  IF j > Len(x) THEN ParseFail
                                 ELSE IF x[j] = RBrace THEN ParseOk(Obj(f), j + 1)
                                 ELSE IF x[j] = Comma THEN ParseMembers(x, j + 1, f)
                                 ELSE ParseFail

\* JSON.parse(text): [ok |-> FALSE] stands for the SyntaxError it throws
JSONparse(x) ==
  LET r == ParseValue(x, 1)
  IN  IF r.ok /\ SkipWS(x, r.i) = Len(x) + 1
      THEN [ok |-> TRUE, v |-> r.v]
      ELSE [ok |-> FALSE, v |-> Undefined]

(***************************************************************************)
(* localStorage: the one key STORAGE_KEY of the key-value surface          *)
(***************************************************************************)
NoItem  == [present |-> FALSE, x |-> <<>>]
Item(x) == [present |-> TRUE, x |-> x]

\* localStorage.getItem(STORAGE_KEY): null when the key is absent
getItem(st) == IF st.present THEN Text(st.x) ELSE Null
\* localStorage.setItem(STORAGE_KEY, data)
setItem(st, x) == Item(x)
\* localStorage.removeItem(STORAGE_KEY)
removeItem(st) == NoItem

\* the faults a call can meet: a storage method or JSON.stringify throwing
FaultKinds == {"getItem", "setItem", "removeItem", "stringify"}
\* a call meets no fault or one of those in S
Faults(S) == {{}} \cup {{f} : f \in S \cap FaultKinds}

(***************************************************************************)
(* The outcome of a call: its return value, whether an exception left it,  *)
(* the storage after it, what it reported to the console and the           *)
(* localStorage methods it called.                                         *)
(***************************************************************************)
Outcome(ret, threw, st, con, acc) ==
  [ret |-> ret, threw |-> threw, storage |-> st, console |-> con, accesses |-> acc]
Return(ret, st, con, acc) == Outcome(ret, FALSE, st, con, acc)
Throw(st, con, acc)       == Outcome(Undefined, TRUE, st, con, acc)
Warn(m)  == [level |-> "warn", msg |-> m]
Error(m) == [level |-> "error", msg |-> m]
EmptyArray == Arr(<<>>)

\* a catch block: the exception is reported and the call returns ret
Catch(o, ret, report) ==
  IF o.threw
  THEN Return(ret, o.storage, Append(o.console, report), o.accesses)
  ELSE o

\* ---- loadNotes ---------------------------------------------------------
\* a slip: the branches of the Array.isArray test exchanged
loadNotesParsedSwapped(st, parsed) ==
  IF ~parsed.ok THEN Throw(st, <<>>, <<"getItem">>)
  ELSE Return(IF IsArray(parsed.v) THEN EmptyArray ELSE parsed.v, st, <<>>, <<"getItem">>)

\* return Array.isArray(parsed) ? parsed : []   (JSON.parse may have thrown)
loadNotesParsed(st, parsed) ==
  IF ~parsed.ok THEN Throw(st, <<>>, <<"getItem">>)
  ELSE Return(IF IsArray(parsed.v) THEN parsed.v ELSE EmptyArray, st, <<>>, <<"getItem">>)

\* if (!data) return []; const parsed = JSON.parse(data); ...
loadNotesData(st, data) ==
  IF ~Truthy(data) THEN Return(EmptyArray, st, <<>>, <<"getItem">>)
  ELSE loadNotesParsed(st, JSONparse(data.x))

\* the try block
loadNotesTry(st, faults) ==
  IF "getItem" \in faults THEN Throw(st, <<>>, <<"getItem">>)
  ELSE loadNotesData(st, getItem(st))

\* a slip: the failure reported with console.error
loadNotesReportsError(st, faults) ==
  Catch(loadNotesTry(st, faults), EmptyArray,
        Error("Failed to load notes from localStorage:"))

loadNotes(st, faults) ==
  Catch(loadNotesTry(st, faults), EmptyArray,
        Warn("Failed to load notes from localStorage:"))

\* ---- saveNotes ---------------------------------------------------------
\* localStorage.setItem(STORAGE_KEY, data); return true
\* (JSON.stringify may have thrown)
saveNotesData(st, data, faults) ==
  IF "stringify" \in faults \/ data.st = "throw" THEN Throw(st, <<>>, <<>>)
  ELSE IF "setItem" \in faults THEN Throw(st, <<>>, <<"setItem">>)
  ELSE Return(Bool(TRUE), setItem(st, data.x), <<>>, <<"setItem">>)

\* a slip: no Array.isArray guard
saveNotesTryUnguarded(st, notes, faults) ==
  saveNotesData(st, JSONstringify(notes, FALSE), faults)

\* a slip: only the notes equal to the first one are written
saveNotesTryFirstOnly(st, notes, faults) ==
  IF ~IsArray(notes)
  THEN Return(Bool(FALSE), st, <<Warn("saveNotes: Expected array, got:")>>, <<>>)
  ELSE saveNotesData(st, JSONstringify(Arr(SelectSeq(notes.a, LAMBDA n : n = notes.a[1])),
                                     FALSE), faults)

\* the try block
saveNotesTry(st, notes, faults) ==
  IF ~IsArray(notes)
  THEN Return(Bool(FALSE), st, <<Warn("saveNotes: Expected array, got:")>>, <<>>)
  ELSE saveNotesData(st, JSONstringify(notes, FALSE), faults)

saveNotes(st, notes, faults) ==
  Catch(saveNotesTry(st, notes, faults), Bool(FALSE),
        Error("Failed to save notes to localStorage:"))

\* ---- exportNotes -------------------------------------------------------
\* return JSON.stringify(notes, null, 2), given the outcome l of loadNotes()
\* and the outcome s of JSON.stringify
exportNotesText(l, s, faults) ==
  IF "stringify" \in faults \/ s.st = "throw"
  THEN Throw(l.storage, l.console, l.accesses)
  ELSE Return(Text(s.x), l.storage, l.console, l.accesses)

\* a slip: the stored text handed out as it is
exportNotesTryRaw(l, faults) ==
  Return(getItem(l.storage), l.storage, l.console, l.accesses)

\* the try block, given the outcome l of loadNotes()
exportNotesTry(l, faults) ==
  IF l.threw THEN l ELSE exportNotesText(l, JSONstringify(l.ret, TRUE), faults)

\* a slip: the catch block returns the empty string
exportNotesEmptyString(st, faults) ==
  Catch(exportNotesTry(loadNotes(st, faults), faults), Text(<<>>),
        Error("Failed to export notes:"))

exportNotes(st, faults) ==
  Catch(exportNotesTry(loadNotes(st, faults), faults), Text(<<LBrack, RBrack>>),
        Error("Failed to export notes:"))

\* ---- importNotes -------------------------------------------------------
\* the characters of a string as JSON text; a string that is not held as
\* tokens is ordinary prose, which is no JSON
TextOf(v) == IF v.t = "text" THEN v.x ELSE <<Junk>>

\* a slip: the type of id is not checked
isValidNoteAnyId(note) ==
  /\ Truthy(note)
  /\ TypeOf(note) = "object"
  /\ TypeOf(Prop(note, "title")) = "string"
  /\ TypeOf(Prop(note, "content")) = "string"

\* the callback of parsed.every(...)
isValidNote(note) ==
  /\ Truthy(note)
  /\ TypeOf(note) = "object"
  /\ TypeOf(Prop(note, "id")) = "string"
  /\ TypeOf(Prop(note, "title")) = "string"
  /\ TypeOf(Prop(note, "content")) = "string"

\* a slip: the parsed collection is saved before its elements are checked
importNotesParsedSaveFirst(st, parsed, faults) ==
  IF ~parsed.ok THEN Throw(st, <<>>, <<>>)
  ELSE IF ~IsArray(parsed.v)
  THEN Return(Bool(FALSE), st,
              <<Warn("importNotes: JSON does not contain an array")>>, <<>>)
  ELSE IF ~(\A n \in 1..Len(parsed.v.a) : isValidNote(parsed.v.a[n]))
  THEN Return(Bool(FALSE), saveNotes(st, parsed.v, faults).storage,
              <<Warn("importNotes: Invalid note structure detected")>>, <<"setItem">>)
  ELSE saveNotes(st, parsed.v, faults)

\* a slip: the imported notes are added to the persisted ones
importNotesParsedMerge(st, parsed, faults) ==
  IF ~parsed.ok THEN Throw(st, <<>>, <<>>)
  ELSE IF ~IsArray(parsed.v)
  THEN Return(Bool(FALSE), st,
              <<Warn("importNotes: JSON does not contain an array")>>, <<>>)
  ELSE IF ~(\A n \in 1..Len(parsed.v.a) : isValidNote(parsed.v.a[n]))
  THEN Return(Bool(FALSE), st,
              <<Warn("importNotes: Invalid note structure detected")>>, <<>>)
  ELSE saveNotes(st, Arr(loadNotes(st, {}).ret.a \o parsed.v.a), faults)

\* a slip: the parsed collection is saved in reverse order
importNotesParsedReversed(st, parsed, faults) ==
  IF ~parsed.ok THEN Throw(st, <<>>, <<>>)
  ELSE IF ~IsArray(parsed.v)
  THEN Return(Bool(FALSE), st,
              <<Warn("importNotes: JSON does not contain an array")>>, <<>>)
  ELSE IF ~(\A n \in 1..Len(parsed.v.a) : isValidNote(parsed.v.a[n]))
  THEN Return(Bool(FALSE), st,
              <<Warn("importNotes: Invalid note structure detected")>>, <<>>)
  ELSE saveNotes(st, Arr([n \in 1..Len(parsed.v.a) |->
                            parsed.v.a[Len(parsed.v.a) + 1 - n]]), faults)

\* the checks on parsed and the final saveNotes(parsed)
\* (JSON.parse may have thrown)
importNotesParsed(st, parsed, faults) ==
  IF ~parsed.ok THEN Throw(st, <<>>, <<>>)
  ELSE IF ~IsArray(parsed.v)
  THEN Return(Bool(FALSE), st,
              <<Warn("importNotes: JSON does not contain an array")>>, <<>>)
  ELSE IF ~(\A n \in 1..Len(parsed.v.a) : isValidNote(parsed.v.a[n]))
  THEN Return(Bool(FALSE), st,
              <<Warn("importNotes: Invalid note structure detected")>>, <<>>)
  ELSE saveNotes(st, parsed.v, faults)

\* the try block
importNotesTry(st, jsonString, faults) ==
  IF TypeOf(jsonString) # "string"
  THEN Return(Bool(FALSE), st, <<Warn("importNotes: Expected string, got:")>>, <<>>)
  ELSE importNotesParsed(st, JSONparse(TextOf(jsonString)), faults)

\* a slip: the catch block reports with console.warn
importNotesReportsWarn(st, jsonString, faults) ==
  Catch(importNotesTry(st, jsonString, faults), Bool(FALSE),
        Warn("Failed to import notes:"))

importNotes(st, jsonString, faults) ==
  Catch(importNotesTry(st, jsonString, faults), Bool(FALSE),
        Error("Failed to import notes:"))

\* ---- clearNotes --------------------------------------------------------
\* a slip: another key is removed
clearNotesTryOtherKey(st, faults) ==
  IF "removeItem" \in faults THEN Throw(st, <<>>, <<"removeItem">>)
  ELSE Return(Bool(TRUE), st, <<>>, <<"removeItem">>)

\* the try block
clearNotesTry(st, faults) ==
  IF "removeItem" \in faults THEN Throw(st, <<>>, <<"removeItem">>)
  ELSE Return(Bool(TRUE), removeItem(st), <<>>, <<"removeItem">>)

\* a slip: no try/catch around removeItem
clearNotesUncaught(st, faults) == clearNotesTry(st, faults)

clearNotes(st, faults) ==
  Catch(clearNotesTry(st, faults), Bool(FALSE),
        Error("Failed to clear notes from localStorage:"))

(***************************************************************************)
(* Bounds and the inputs of the store's callers                            *)
(***************************************************************************)
\* the longest note collection a caller hands to the store
MaxNotes == 2

\* a Note record with all five fields
Note(id, title, content, created, updated) ==
  Obj([id |-> Str(id), title |-> Str(title), content |-> Str(content),
       createdAt |-> Str(created), updatedAt |-> Str(updated)])
N1 == Note("note-1", "First Note", "This is my first note",
           "2025-08-18T10:00:00.000Z", "2025-08-18T10:00:00.000Z")
\* a note with an empty title, updated after its creation
N2 == Note("note-2", "", "This is my second note",
           "2025-08-18T11:00:00.000Z", "2025-08-18T12:00:00.000Z")
NoteSet == {N1, N2}
\* a record with only the three required fields, and one with an extra field
MinimalNote == Obj([id |-> Str("test-1"), title |-> Str("Test Note"),
                    content |-> Str("Test content")])
ExtraNote   == Obj([id |-> Str("test-2"), title |-> Str("Test Note"),
                    content |-> Str("Test content"), tag |-> Num("7")])
\* records that are no notes
MissingFields == Obj([missing |-> Str("required fields")])
NumericId     == Obj([id |-> Num("1"), title |-> Str("Test Note"),
                      content |-> Str("Test content")])
\* a record JSON cannot represent as it is
LossyNote     == Obj([id |-> Str("note-3"), title |-> Undefined, content |-> Num("NaN")])
NotArray      == Obj([not |-> Str("array")])

\* every sequence of notes of length at most MaxNotes
Collections == UNION {[1..n -> NoteSet] : n \in 0..MaxNotes}

\* the compact and the pretty-printed text of a value
Compact(v) == JSONstringify(v, FALSE).x
Pretty(v)  == JSONstringify(v, TRUE).x

\* what callers pass to saveNotes
SaveInputs ==
  {Arr(c) : c \in Collections}
    \cup {Str("not an array"), NotArray, Undefined}
    \cup {Arr(<<Undefined>>), Arr(<<LossyNote>>), Arr(<<Cyclic>>)}

\* texts that are syntactically no JSON
MalformedTexts ==
  { <<>>, <<Junk>>,
    SubSeq(Compact(Arr(<<N1>>)), 1, Len(Compact(Arr(<<N1>>))) - 1) }

\* texts that are JSON but no sequence
NonArrayTexts == { Compact(NotArray), <<LitTok("null")>> }

\* texts of sequences with an element that is no note
BadElementTexts ==
  { Compact(Arr(<<MissingFields>>)), Compact(Arr(<<N1, MissingFields>>)),
    Compact(Arr(<<Null, N1>>)), Compact(Arr(<<Arr(<<>>)>>)),
    Compact(Arr(<<NumericId, N2>>)) }

\* texts of sequences of notes
NoteTexts ==
  {Pretty(Arr(c)) : c \in Collections}
    \cup { Compact(Arr(<<MinimalNote>>)), Compact(Arr(<<ExtraNote, N1>>)) }

\* what callers pass to importNotes
ImportInputs ==
  {Text(x) : x \in MalformedTexts \cup NonArrayTexts \cup BadElementTexts \cup NoteTexts}
    \cup {Num("123"), Undefined, Arr(<<N1>>)}

\* what another party (another tab, a test, an earlier version) leaves under
\* the key
ExternalTexts ==
  MalformedTexts \cup NonArrayTexts \cup {Compact(Arr(<<N1, N2>>)), Pretty(Arr(<<N2>>))}

(***************************************************************************)
(* debounce(func, wait) over the host's timers                             *)
(***************************************************************************)
\* the largest wait a wrapper is built with
MaxWait == 2
\* the last instant of the clock
MaxTime == 4
\* the most invocations of the wrapper
MaxCalls == 3
\* the arguments the wrapper is invoked with
Args == {"first", "second"}
\* the value of timeoutId before the first setTimeout (undefined)
NoTimer == 0

\* clearTimeout(id): the timer, if still pending, is dropped
clearTimeout(tm, id) == {t \in tm : t.id # id}
\* setTimeout(later, wait) at instant t: a new pending timer, named id, whose
\* callback closes over args
setTimeout(tm, id, t, w, args) == tm \cup {[id |-> id, due |-> t + w, args |-> args]}

\* a slip: the pending timer is not cancelled
executedFunctionNoCancel(tm, tid, id, t, w, args) ==
  [timers |-> setTimeout(tm, id, t, w, args), timeoutId |-> id, applied |-> <<>>]

\* a slip: with wait = 0 func is applied at once, without a timer
executedFunctionImmediate(tm, tid, id, t, w, args) ==
  IF w = 0
  THEN [timers |-> clearTimeout(tm, tid), timeoutId |-> tid, applied |-> <<args>>]
  ELSE [timers |-> setTimeout(clearTimeout(tm, tid), id, t, w, args),
        timeoutId |-> id, applied |-> <<>>]

\* a slip: the callback keeps the arguments of the invocation it supersedes
executedFunctionFirstArgs(tm, tid, id, t, w, args) ==
  [timers |-> setTimeout(clearTimeout(tm, tid), id, t, w,
                         IF \E p \in tm : p.id = tid
                         THEN (CHOOSE p \in tm : p.id = tid).args ELSE args),
   timeoutId |-> id, applied |-> <<>>]

\* a slip: while a run is pending an invocation schedules nothing, so func
\* runs every wait during a burst
executedFunctionThrottle(tm, tid, id, t, w, args) ==
  IF \E timer \in tm : timer.id = tid
  THEN [timers |-> tm, timeoutId |-> tid, applied |-> <<>>]
  ELSE [timers |-> setTimeout(tm, id, t, w, args), timeoutId |-> id, applied |-> <<>>]

\* executedFunction(...args) at instant t:
\*   clearTimeout(timeoutId); timeoutId = setTimeout(later, wait)
\* applied: the arguments func is applied to before the call returns (none)
executedFunction(tm, tid, id, t, w, args) ==
  [timers |-> setTimeout(clearTimeout(tm, tid), id, t, w, args), timeoutId |-> id,
   applied |-> <<>>]

\* later(), the callback of the timer that fires:
\*   clearTimeout(timeoutId); func.apply(this, args)
later(tm, tid, timer) ==
  [timers |-> clearTimeout(tm \ {timer}, tid), applied |-> timer.args,
   id |-> timer.id]

\* ---- the two wrappers of the controller ---------------------------------
\* const autoSave = debounce(..., 2000); const debouncedSearch = debounce(..., 300)
AutoSaveWait == 2000
SearchWait   == 300
Wrappers == {"autoSave", "debouncedSearch"}
WaitOf(w) == IF w = "autoSave" THEN AutoSaveWait ELSE SearchWait
\* what the wrappers are invoked with: autoSave() without arguments,
\* debouncedSearch(query)
ArgsOf(w) == IF w = "autoSave" THEN {"none"} ELSE {"q", "qu"}
\* the most invocations of the two wrappers together
MaxInvocations == 4
\* how many times the clock advances
MaxAdvances == 8

\* a slip: timeoutId declared outside debounce, one variable for all wrappers
TimeoutSlotShared(w) == "autoSave"

\* let timeoutId inside debounce: every call of debounce has its own
TimeoutSlot(w) == w

(***************************************************************************)
(* The application controller (app.js) and the note objects (ui.js)        *)
(***************************************************************************)
\* the last instant of Date
MaxDate == 1

\* the most calls of saveNotes by the controllers
MaxSaves == 2

\* what the user leaves in the title input and in the body textarea
EditorTitles == {" ", " A "}
EditorBodies == {"", "x"}
\* String.prototype.trim on these texts
Trim(str) ==
  CASE str = " "   -> ""
    [] str = " A " -> "A"
    [] OTHER       -> str

\* new Date().toISOString() at instant d
toISOString(d) ==
  <<"2025-08-18T10:00:00.000Z", "2025-08-18T10:00:02.000Z",
    "2025-08-18T10:00:04.000Z", "2025-08-18T10:00:06.000Z">>[d + 1]
\* `note_${Date.now()}_${Math.random().toString(36).substr(2, 9)}` of the
\* n-th note created: the time and the random suffix are taken to make the
\* ids of different notes different
NoteId(n) ==
  <<"note_1755511200000_k3j9x0q2a", "note_1755511202000_p07zv41md",
    "note_1755511204000_c8w2r5t6y", "note_1755511206000_h1n4b9s3e">>[n]

\* createNoteObject(title, content), with the id and the Date it draws
createNoteObject(title, content, id, d) ==
  Obj([id |-> Str(id), title |-> Str(Trim(title)), content |-> Str(Trim(content)),
       createdAt |-> Str(toISOString(d)), updatedAt |-> Str(toISOString(d))])

\* a slip: createdAt is set again on every update
updateNoteObjectTouchesCreatedAt(note, title, content, d) ==
  Obj([k \in DOMAIN note.f \cup {"title", "content", "createdAt", "updatedAt"} |->
         CASE k = "title"     -> Str(Trim(title))
           [] k = "content"   -> Str(Trim(content))
           [] k \in {"createdAt", "updatedAt"} -> Str(toISOString(d))
           [] OTHER           -> note.f[k]])

\* updateNoteObject(note, title, content):
\*   {...note, title: title.trim(), content: content.trim(), updatedAt: now}
updateNoteObject(note, title, content, d) ==
  Obj([k \in DOMAIN note.f \cup {"title", "content", "updatedAt"} |->
         CASE k = "title"     -> Str(Trim(title))
           [] k = "content"   -> Str(Trim(content))
           [] k = "updatedAt" -> Str(toISOString(d))
           [] OTHER           -> note.f[k]])

\* notes.findIndex(n => n.id === id), counted from 1; 0 when there is none
findIndex(ns, id) ==
  IF \E i \in 1..Len(ns) : Prop(ns[i], "id") = id
  THEN CHOOSE i \in 1..Len(ns) :
         /\ Prop(ns[i], "id") = id
         /\ \A j \in 1..(i - 1) : Prop(ns[j], "id") # id
  ELSE 0

\* v || ''  for a string v
OrEmpty(v) == IF Truthy(v) THEN v.s ELSE ""

\* a controller before init(): the module's state and the empty form
NewTab ==
  [started |-> FALSE, notes |-> <<>>, currentNote |-> Null,
   noteTitle |-> "", noteBody |-> "", status |-> "", autoSave |-> FALSE]

\* hasUnsavedChanges() of controller c
hasUnsavedChanges(c) ==
  IF ~Truthy(c.currentNote)
  THEN Trim(c.noteTitle) # "" \/ Trim(c.noteBody) # ""
  ELSE \/ Str(Trim(c.noteTitle)) # Prop(c.currentNote, "title")
       \/ Str(Trim(c.noteBody)) # Prop(c.currentNote, "content")

\* what a handler leaves: the controller c, the storage, what saveNotes
\* returned (undefined when it was not called) and whether a note was made
Handled(c, st, saved, made) == [c |-> c, storage |-> st, saved |-> saved, made |-> made]

\* a slip: the updated note is put in front of the list, the old one stays
saveCurrentNoteUpdatePrepends(ns, u) ==
  [notes |-> <<u>> \o ns, currentNote |-> u, made |-> FALSE]

\* notes[index] = currentNote, if index !== -1
saveCurrentNoteUpdate(ns, u) ==
  [notes |-> IF findIndex(ns, Prop(u, "id")) # 0
             THEN [ns EXCEPT ![findIndex(ns, Prop(u, "id"))] = u] ELSE ns,
   currentNote |-> u, made |-> FALSE]

\* a slip: the new note is pushed to the end
saveCurrentNoteEditPush(c, id, d) ==
  IF Truthy(c.currentNote)
  THEN saveCurrentNoteUpdate(c.notes, updateNoteObject(c.currentNote, Trim(c.noteTitle),
                                                       Trim(c.noteBody), d))
  ELSE [notes |-> Append(c.notes, createNoteObject(Trim(c.noteTitle), Trim(c.noteBody), id, d)),
        currentNote |-> createNoteObject(Trim(c.noteTitle), Trim(c.noteBody), id, d),
        made |-> TRUE]

\* if (currentNote) { update } else { create; notes.unshift(currentNote) }
saveCurrentNoteEdit(c, id, d) ==
  IF Truthy(c.currentNote)
  THEN saveCurrentNoteUpdate(c.notes, updateNoteObject(c.currentNote, Trim(c.noteTitle),
                                                       Trim(c.noteBody), d))
  ELSE [notes |-> <<createNoteObject(Trim(c.noteTitle), Trim(c.noteBody), id, d)>> \o c.notes,
        currentNote |-> createNoteObject(Trim(c.noteTitle), Trim(c.noteBody), id, d),
        made |-> TRUE]

\* saveNotes(notes); renderApp(); showStatus('Note saved!'), given the
\* outcome o of saveNotes
saveCurrentNoteDone(c, e, o) ==
  Handled([c EXCEPT !.notes = e.notes, !.currentNote = e.currentNote,
                    !.status = "Note saved!"],
          o.storage, o.ret, e.made)

\* a slip: the stored notes are read again and kept behind the list
saveCurrentNoteWriteMerged(c, st, faults, e) ==
  saveCurrentNoteDone(c, e, saveNotes(st, Arr(e.notes \o loadNotes(st, {}).ret.a), faults))

saveCurrentNoteWrite(c, st, faults, e) ==
  saveCurrentNoteDone(c, e, saveNotes(st, Arr(e.notes), faults))

\* a slip: the empty check is left out
saveCurrentNoteUnchecked(c, st, faults, id, d) ==
  saveCurrentNoteWrite(c, st, faults, saveCurrentNoteEdit(c, id, d))

\* saveCurrentNote()
saveCurrentNote(c, st, faults, id, d) ==
  IF Trim(c.noteTitle) = "" /\ Trim(c.noteBody) = ""
  THEN Handled([c EXCEPT !.status = "Cannot save empty note"], st, Undefined, FALSE)
  ELSE saveCurrentNoteWrite(c, st, faults, saveCurrentNoteEdit(c, id, d))

\* the confirmed branch of deleteCurrentNote(), given the outcome o of
\* saveNotes
deleteCurrentNoteDone(c, ns, o) ==
  Handled([c EXCEPT !.notes = ns, !.currentNote = Null, !.noteTitle = "",
                    !.noteBody = "", !.status = "Note deleted!"],
          o.storage, o.ret, FALSE)

\* notes = notes.filter(n => n.id !== currentNote.id); saveNotes(notes); ...
deleteCurrentNoteWrite(c, st, faults, ns) ==
  deleteCurrentNoteDone(c, ns, saveNotes(st, Arr(ns), faults))

\* deleteCurrentNote(), with the answer to confirm()
deleteCurrentNote(c, st, faults, confirmed) ==
  IF ~Truthy(c.currentNote) \/ ~confirmed
  THEN Handled(c, st, Undefined, FALSE)
  ELSE deleteCurrentNoteWrite(c, st, faults,
         SelectSeq(c.notes, LAMBDA n : Prop(n, "id") # Prop(c.currentNote, "id")))

\* ---- renderNotesList -----------------------------------------------------
MaxListed == 3
\* the number NaN
NaN == [nan |-> TRUE, ms |-> 0]
\* new Date(v) as a number: the instant whose toISOString() is v; NaN (an
\* Invalid Date) for undefined and for any other text
NewDate(v) ==
  IF v.t = "string" /\ \E d \in 0..3 : toISOString(d) = v.s
  THEN [nan |-> FALSE, ms |-> CHOOSE d \in 0..3 : toISOString(d) = v.s]
  ELSE NaN
\* x - y
Minus(x, y) == IF x.nan \/ y.nan THEN NaN ELSE [nan |-> FALSE, ms |-> x.ms - y.ms]
\* (a, b) => new Date(b.updated) - new Date(a.updated)
compareFn(a, b) == Minus(NewDate(Prop(b, "updated")), NewDate(Prop(a, "updated")))
\* SortCompare of Array.prototype.sort: a NaN from the comparator counts as +0
SortCompare(a, b) == IF compareFn(a, b).nan THEN 0 ELSE compareFn(a, b).ms
\* x put into the sorted s behind every element that does not sort after it
SortInsert(s, x) ==
  IF \E i \in 1..Len(s) : SortCompare(s[i], x) > 0
  THEN SubSeq(s, 1, (CHOOSE i \in 1..Len(s) :
                       /\ SortCompare(s[i], x) > 0
                       /\ \A j \in 1..(i - 1) : SortCompare(s[j], x) <= 0) - 1)
       \o <<x>> \o
       SubSeq(s, CHOOSE i \in 1..Len(s) :
                       /\ SortCompare(s[i], x) > 0
                       /\ \A j \in 1..(i - 1) : SortCompare(s[j], x) <= 0, Len(s))
  ELSE Append(s, x)
\* [...notes].sort(compareFn): the sort is stable
RECURSIVE SortNotes(_)
SortNotes(ns) ==
  IF ns = <<>> THEN <<>>
  ELSE SortInsert(SortNotes(SubSeq(ns, 1, Len(ns) - 1)), ns[Len(ns)])

\* renderNotesList(listElement, notes): one item per note of the sorted
\* copy, with its data-note-id, title and <time datetime>
renderNotesList(ns) ==
  [n \in 1..Len(ns) |->
     [noteId |-> Prop(SortNotes(ns)[n], "id"),
      title |-> IF Truthy(Prop(SortNotes(ns)[n], "title"))
                THEN Prop(SortNotes(ns)[n], "title") ELSE Str("Untitled"),
      datetime |-> Prop(SortNotes(ns)[n], "updatedAt")]]

\* ---- showStatus ----------------------------------------------------------
\* the default of the duration parameter, in milliseconds
DefaultDuration == 3000
MaxShown == 2
\* the messages and types the controller passes
StatusMessages ==
  {<<"App ready!", "success">>, <<"Note saved!", "success">>,
   <<"Cannot save empty note", "error">>}

\* the status element with no message
ClearedStatus == [textContent |-> "", className |-> <<"status">>, ariaLive |-> "polite"]

\* the callback of the timer of showStatus:
\*   statusElement.textContent = ''; statusElement.className = 'status'
statusTimeout(el) == [el EXCEPT !.textContent = "", !.className = <<"status">>]

\* showStatus(statusElement, message, type, duration) at instant t: the
\* element shows the message and a new timer, named id, is set; no earlier
\* timer is cleared
showStatus(el, tm, id, t, message, type, duration) ==
  [statusElement |-> [textContent |-> message, className |-> <<"status", type>>,
                      ariaLive |-> IF type = "error" THEN "assertive" ELSE "polite"],
   timers |-> setTimeout(tm, id, t, duration, <<"showStatus", message>>)]

(***************************************************************************)
(* State                                                                   *)
(***************************************************************************)
VARIABLES
  storage,     \* the value under STORAGE_KEY
  call,        \* the last call: [op, arg, faults]
  ret,         \* what it returned
  threw,       \* whether an exception left it
  console,     \* what it reported to the console
  accesses,    \* the localStorage methods it called
  changed,     \* whether it left another value under STORAGE_KEY
  given,       \* the collection of the last successful saveNotes/importNotes
               \* (empty after a successful clearNotes)
  lastWrite    \* which operation wrote the key last

VARIABLES
  built,       \* whether debounce(func, wait) has been called
  wait,        \* its wait argument
  timeoutId,   \* the wrapper's timeoutId
  timers,      \* the host's pending timers
  now,         \* the clock
  calls,       \* the invocations of the wrapper: [time, args]
  runs,        \* the executions of func: [time, args]
  served       \* for each execution, the invocation whose closure ran and
               \* the latest invocation at that moment: [call, latest]

VARIABLES
  timeoutIds,  \* the timeoutId of each of the two wrappers
  hostTimers,  \* the host's pending timers
  elapsed,     \* the clock, in milliseconds
  issued,      \* how many timers the host has handed out
  event,       \* the last step: [kind, wrapper]
  lastCall,    \* the latest invocation of each wrapper: [time, args]
  applied,     \* the arguments func was applied to, for each wrapper
  statusElement, \* the status element: its textContent, className, aria-live
  shown        \* the last call of showStatus: [id, at, duration]

VARIABLES
  tab,         \* the controller of each tab: its notes, currentNote, the
               \* values of the title input and the body textarea, the text
               \* of the status element, whether init() ran and whether a
               \* run of autoSave is pending
  date,        \* Date
  born,        \* the createdAt of the notes created, in order of creation
  lastSave,    \* the last call of saveNotes by a controller, and how many
               \* there were: [tab, ok, n]
  deleteAsked  \* the note that was selected when the Delete button was
               \* clicked, until the next handler runs; null otherwise

VARIABLES
  listed,      \* the notes array renderApp() passes to renderNotesList
  rendered     \* the items of the notes list element, in document order:
               \* [noteId, title, datetime]

storeVars == <<storage, call, ret, threw, console, accesses, changed, given, lastWrite>>
debounceVars == <<built, wait, timeoutId, timers, now, calls, runs, served>>
wrapperVars == <<timeoutIds, hostTimers, elapsed, issued, event, lastCall, applied,
                 statusElement, shown>>
appVars == <<tab, date, born, lastSave, deleteAsked>>
listVars == <<listed, rendered>>
storeHistory == <<call, ret, threw, console, accesses, changed, given, lastWrite>>
vars == <<storeVars, debounceVars, wrapperVars, appVars, listVars>>

StoreInit ==
  /\ storage = NoItem
  /\ call = [op |-> "none", arg |-> Undefined, faults |-> {}]
  /\ ret = Undefined
  /\ threw = FALSE
  /\ console = <<>>
  /\ accesses = <<>>
  /\ changed = FALSE
  /\ given = EmptyArray
  /\ lastWrite = "none"

\* a call of op(arg) that meets faults and ends as o
Call(op, arg, faults, o) ==
  /\ changed' = (o.storage # storage)
  /\ storage' = o.storage
  /\ call' = [op |-> op, arg |-> arg, faults |-> faults]
  /\ ret' = o.ret
  /\ threw' = o.threw
  /\ console' = o.console
  /\ accesses' = o.accesses
  /\ UNCHANGED <<debounceVars, wrapperVars, appVars, listVars>>

\* the history of the key after a call that returned o.ret
Written(op, collection, o) ==
  IF o.ret = Bool(TRUE)
  THEN given' = collection /\ lastWrite' = op
  ELSE UNCHANGED <<given, lastWrite>>

CallLoadNotes ==
  \E faults \in Faults({"getItem"}) :
    /\ Call("loadNotes", Undefined, faults, loadNotes(storage, faults))
    /\ UNCHANGED <<given, lastWrite>>

SaveStep(notes, faults, o) ==
  Call("saveNotes", notes, faults, o) /\ Written("saveNotes", notes, o)

CallSaveNotes ==
  \E notes \in SaveInputs, faults \in Faults({"stringify", "setItem"}) :
    SaveStep(notes, faults, saveNotes(storage, notes, faults))

CallExportNotes ==
  \E faults \in Faults({"getItem", "stringify"}) :
    /\ Call("exportNotes", Undefined, faults, exportNotes(storage, faults))
    /\ UNCHANGED <<given, lastWrite>>

ImportStep(jsonString, faults, o) ==
  /\ Call("importNotes", jsonString, faults, o)
  /\ Written("importNotes", JSONparse(TextOf(jsonString)).v, o)

CallImportNotes ==
  \E jsonString \in ImportInputs, faults \in Faults({"stringify", "setItem"}) :
    ImportStep(jsonString, faults, importNotes(storage, jsonString, faults))

ClearStep(faults, o) ==
  Call("clearNotes", Undefined, faults, o) /\ Written("clearNotes", EmptyArray, o)

CallClearNotes ==
  \E faults \in Faults({"removeItem"}) :
    ClearStep(faults, clearNotes(storage, faults))

\* another party writes the key directly
ExternalSetItem ==
  \E x \in ExternalTexts :
    /\ Call("external", Text(x), {}, Return(Undefined, setItem(storage, x), <<>>, <<>>))
    /\ given' = EmptyArray
    /\ lastWrite' = "external"

\* importNotes(exportNotes()): the text the last call, of exportNotes,
\* returned is imported
CallImportExported ==
  \E faults \in Faults({"stringify", "setItem"}) :
    /\ call.op = "exportNotes"
    /\ ImportStep(ret, faults, importNotes(storage, ret, faults))

\* a backup: the collection is saved, exported, and the export imported
BackupNext ==
  \/ CallSaveNotes
  \/ CallExportNotes
  \/ CallImportExported

StoreNext ==
  \/ CallLoadNotes
  \/ CallSaveNotes
  \/ CallExportNotes
  \/ CallImportNotes
  \/ CallClearNotes
  \/ ExternalSetItem

DebounceInit ==
  /\ built = FALSE
  /\ wait = 0
  /\ timeoutId = NoTimer
  /\ timers = {}
  /\ now = 0
  /\ calls = <<>>
  /\ runs = <<>>
  /\ served = <<>>

\* const wrapper = debounce(func, w)
Debounce ==
  \E w \in 0..MaxWait :
    /\ ~built
    /\ built' = TRUE
    /\ wait' = w
    /\ UNCHANGED <<timeoutId, timers, now, calls, runs, served>>
    /\ UNCHANGED <<storeVars, wrapperVars, appVars, listVars>>

InvokeStep(args, e) ==
  /\ timers' = e.timers
  /\ timeoutId' = e.timeoutId
  /\ calls' = Append(calls, [time |-> now, args |-> args])
  /\ runs' = runs \o [n \in 1..Len(e.applied) |-> [time |-> now, args |-> e.applied[n]]]
  /\ served' = served \o [n \in 1..Len(e.applied) |->
                            [call |-> Len(calls) + 1, latest |-> Len(calls) + 1]]
  /\ UNCHANGED <<built, wait, now>>
  /\ UNCHANGED <<storeVars, wrapperVars, appVars, listVars>>

\* wrapper(args)
Invoke ==
  \E args \in Args :
    /\ built
    /\ Len(calls) < MaxCalls
    /\ InvokeStep(args, executedFunction(timers, timeoutId, Len(calls) + 1, now, wait, args))

FireStep(l) ==
  /\ timers' = l.timers
  /\ runs' = Append(runs, [time |-> now, args |-> l.applied])
  /\ served' = Append(served, [call |-> l.id, latest |-> Len(calls)])
  /\ UNCHANGED <<built, wait, timeoutId, now, calls>>
  /\ UNCHANGED <<storeVars, wrapperVars, appVars, listVars>>

\* the host runs the callback of a timer that is due (never early, possibly
\* late)
TimerFires ==
  \E timer \in timers :
    /\ timer.due <= now
    /\ FireStep(later(timers, timeoutId, timer))

\* time passes
Tick ==
  /\ now < MaxTime
  /\ now' = now + 1
  /\ UNCHANGED <<built, wait, timeoutId, timers, calls, runs, served>>
  /\ UNCHANGED <<storeVars, wrapperVars, appVars, listVars>>

DebounceNext ==
  \/ Debounce
  \/ Invoke
  \/ TimerFires
  \/ Tick

\* ---- autoSave and debouncedSearch over the same host ---------------------
NoCall == [time |-> 0, args |-> "never"]

WrappersInit ==
  /\ timeoutIds = [w \in Wrappers |-> NoTimer]
  /\ hostTimers = {}
  /\ elapsed = 0
  /\ issued = 0
  /\ event = [kind |-> "none", wrapper |-> "none"]
  /\ lastCall = [w \in Wrappers |-> NoCall]
  /\ applied = [w \in Wrappers |-> <<>>]
  /\ statusElement = ClearedStatus
  /\ shown = [id |-> NoTimer, at |-> 0, duration |-> 0]

WrapperInvokeStep(w, args, e) ==
  /\ hostTimers' = e.timers
  /\ timeoutIds' = [timeoutIds EXCEPT ![TimeoutSlot(w)] = e.timeoutId]
  /\ issued' = issued + 1
  /\ event' = [kind |-> "invoke", wrapper |-> w]
  /\ lastCall' = [lastCall EXCEPT ![w] = [time |-> elapsed, args |-> args]]
  /\ UNCHANGED <<elapsed, applied, statusElement, shown>>
  /\ UNCHANGED <<storeVars, debounceVars, appVars, listVars>>

\* autoSave() or debouncedSearch(query)
WrapperInvoke ==
  \E w \in Wrappers : \E args \in ArgsOf(w) :
    /\ issued < MaxInvocations
    /\ WrapperInvokeStep(w, args,
          executedFunction(hostTimers, timeoutIds[TimeoutSlot(w)], issued + 1,
                           elapsed, WaitOf(w), <<w, args>>))

WrapperFireStep(w, l) ==
  /\ hostTimers' = l.timers
  /\ applied' = [applied EXCEPT ![w] = Append(@, l.applied[2])]
  /\ event' = [kind |-> "fire", wrapper |-> w]
  /\ UNCHANGED <<timeoutIds, elapsed, issued, lastCall, statusElement, shown>>
  /\ UNCHANGED <<storeVars, debounceVars, appVars, listVars>>

\* the host runs the callback of a due timer: later() of the wrapper that
\* set it
WrapperTimerFires ==
  \E timer \in hostTimers :
    /\ timer.due <= elapsed
    /\ WrapperFireStep(timer.args[1],
          later(hostTimers, timeoutIds[TimeoutSlot(timer.args[1])], timer))

\* time passes
Advance ==
  /\ elapsed < MaxAdvances * SearchWait
  /\ elapsed' = elapsed + SearchWait
  /\ event' = [kind |-> "advance", wrapper |-> "none"]
  /\ UNCHANGED <<timeoutIds, hostTimers, issued, lastCall, applied, statusElement, shown>>
  /\ UNCHANGED <<storeVars, debounceVars, appVars, listVars>>

WrappersNext ==
  \/ WrapperInvoke
  \/ WrapperTimerFires
  \/ Advance

\* ---- the status element and the host's timers ----------------------------
ShowStep(id, duration, e) ==
  /\ statusElement' = e.statusElement
  /\ hostTimers' = e.timers
  /\ issued' = id
  /\ shown' = [id |-> id, at |-> elapsed, duration |-> duration]
  /\ UNCHANGED <<timeoutIds, elapsed, event, lastCall, applied>>
  /\ UNCHANGED <<storeVars, debounceVars, appVars, listVars>>

\* showStatus(elements.status, message, type)
ShowStatus ==
  \E m \in StatusMessages :
    /\ issued < MaxShown
    /\ ShowStep(issued + 1, DefaultDuration,
                showStatus(statusElement, hostTimers, issued + 1, elapsed,
                           m[1], m[2], DefaultDuration))

\* the host runs the callback of a due timer of showStatus
StatusTimerFires ==
  \E timer \in hostTimers :
    /\ timer.due <= elapsed
    /\ statusElement' = statusTimeout(statusElement)
    /\ hostTimers' = hostTimers \ {timer}
    /\ UNCHANGED <<timeoutIds, elapsed, issued, event, lastCall, applied, shown>>
    /\ UNCHANGED <<storeVars, debounceVars, appVars, listVars>>

\* time passes, a third of the default duration at a time
StatusClock ==
  /\ elapsed < MaxShown * DefaultDuration
  /\ elapsed' = elapsed + DefaultDuration \div 3
  /\ UNCHANGED <<timeoutIds, hostTimers, issued, event, lastCall, applied,
                 statusElement, shown>>
  /\ UNCHANGED <<storeVars, debounceVars, appVars, listVars>>

StatusNext ==
  \/ ShowStatus
  \/ StatusTimerFires
  \/ StatusClock

\* ---- the list of notes as creates and updates leave it -------------------
ListInit ==
  /\ listed = <<>>
  /\ rendered = <<>>

\* the list e.notes that saveCurrentNote leaves is rendered by renderApp()
ListStep(e) ==
  /\ listed' = e.notes
  /\ rendered' = renderNotesList(e.notes)
  /\ UNCHANGED <<storeVars, debounceVars, wrapperVars, appVars>>

\* a note is created: saveCurrentNote with no note selected
ListCreate ==
  \E title \in EditorTitles, body \in EditorBodies :
    /\ Len(listed) < MaxListed
    /\ Trim(title) # "" \/ Trim(body) # ""
    /\ ListStep(saveCurrentNoteEdit(
                  [NewTab EXCEPT !.notes = listed, !.noteTitle = title, !.noteBody = body],
                  NoteId(Len(listed) + 1), date))

\* a note is updated: saveCurrentNote with the n-th note selected
ListUpdate ==
  \E n \in 1..Len(listed), title \in EditorTitles, body \in EditorBodies :
    /\ Trim(title) # "" \/ Trim(body) # ""
    /\ ListStep(saveCurrentNoteEdit(
                  [NewTab EXCEPT !.notes = listed, !.currentNote = listed[n],
                                 !.noteTitle = title, !.noteBody = body],
                  NoteId(Len(listed) + 1), date))

\* ---- the controllers of the tabs over the one storage key ----------------
Tabs == {"tab1", "tab2"}

AppInit ==
  /\ tab = [t \in Tabs |-> NewTab]
  /\ date = 0
  /\ born = <<>>
  /\ lastSave = [tab |-> "none", ok |-> FALSE, n |-> 0]
  /\ deleteAsked = Null

\* a handler of the controller of tab t that ends as h
Handle(t, h) ==
  /\ tab' = [tab EXCEPT ![t] = h.c]
  /\ storage' = h.storage
  /\ born' = IF h.made THEN Append(born, Prop(h.c.currentNote, "createdAt").s) ELSE born
  /\ lastSave' = IF h.saved = Undefined THEN lastSave
                 ELSE [tab |-> t, ok |-> h.saved.b, n |-> lastSave.n + 1]
  /\ deleteAsked' = Null
  /\ UNCHANGED date
  /\ UNCHANGED <<storeHistory, debounceVars, wrapperVars, listVars>>

\* a slip: init() leaves the list empty
initEmpty(c, l) ==
  Handled([c EXCEPT !.started = TRUE, !.notes = <<>>, !.status = "App ready!"],
          l.storage, Undefined, FALSE)

\* init(): notes = loadNotes(); renderApp(); showStatus('App ready!')
init(c, l) ==
  Handled([c EXCEPT !.started = TRUE, !.notes = l.ret.a, !.status = "App ready!"],
          l.storage, Undefined, FALSE)

\* the page has loaded and init() runs, with the storage meeting one of
\* the fault sets F
DOMContentLoadedUnder(t, F) ==
  /\ ~tab[t].started
  /\ \E faults \in F :
       Handle(t, init(tab[t], loadNotes(storage, faults)))

DOMContentLoaded(t) == DOMContentLoadedUnder(t, Faults({"getItem"}))

\* the user changes the title or the body: renderApp(); autoSave()
Input(t) ==
  \E title \in EditorTitles, body \in EditorBodies :
    /\ tab[t].started
    /\ <<title, body>> # <<tab[t].noteTitle, tab[t].noteBody>>
    /\ Handle(t,
          Handled([tab[t] EXCEPT !.noteTitle = title, !.noteBody = body,
                                 !.autoSave = TRUE],
                  storage, Undefined, FALSE))

\* whether one more call of saveNotes is within the bound
MaySave == lastSave.n < MaxSaves

\* the save button or Ctrl+S
SaveCurrentNoteUnder(t, F) ==
  /\ tab[t].started
  /\ MaySave
  /\ \E faults \in F :
       Handle(t,
              saveCurrentNote(tab[t], storage, faults, NoteId(Len(born) + 1), date))

SaveCurrentNote(t) == SaveCurrentNoteUnder(t, Faults({"setItem"}))

\* a slip: the callback saves whether or not there are unsaved changes
autoSaveAlways(c, st, faults, id, d) ==
  saveCurrentNote(c, st, faults, id, d)

\* the callback of autoSave: if (hasUnsavedChanges()) saveCurrentNote()
autoSave(c, st, faults, id, d) ==
  IF hasUnsavedChanges(c) THEN saveCurrentNote(c, st, faults, id, d)
  ELSE Handled(c, st, Undefined, FALSE)

\* the timer of autoSave fires
AutoSaveRunsUnder(t, F) ==
  /\ tab[t].autoSave
  /\ MaySave
  /\ \E faults \in F :
       Handle(t,
              autoSave([tab[t] EXCEPT !.autoSave = FALSE], storage, faults,
                       NoteId(Len(born) + 1), date))

AutoSaveRuns(t) == AutoSaveRunsUnder(t, Faults({"setItem"}))

\* deleteCurrentNote() is called, as it would be by a listener of the Delete
\* button
DeleteCurrentNote(t) ==
  /\ tab[t].started
  /\ MaySave
  /\ \E confirmed \in BOOLEAN, faults \in Faults({"setItem"}) :
       Handle(t,
              deleteCurrentNote(tab[t], storage, faults, confirmed))

\* createNewNote()
CreateNewNote(t) ==
  /\ tab[t].started
  /\ Handle(t,
        Handled([tab[t] EXCEPT !.currentNote = Null, !.noteTitle = "", !.noteBody = "",
                               !.status = "Ready to create new note"],
                storage, Undefined, FALSE))

\* a click on the n-th note of the list:
\*   currentNote = notes.find(n => n.id === noteId); renderNoteInEditor(note)
selectNote(c, st, note) ==
  Handled([c EXCEPT !.currentNote = note,
                    !.noteTitle = OrEmpty(Prop(note, "title")),
                    !.noteBody = OrEmpty(Prop(note, "content"))],
          st, Undefined, FALSE)

SelectNote(t) ==
  \E n \in 1..Len(tab[t].notes) :
    Handle(t,
      selectNote(tab[t], storage,
                 tab[t].notes[findIndex(tab[t].notes, Prop(tab[t].notes[n], "id"))]))

\* the timer of showStatus clears the status element
StatusCleared(t) ==
  /\ tab[t].status # ""
  /\ Handle(t,
        Handled([tab[t] EXCEPT !.status = ""], storage, Undefined, FALSE))

\* a click on the Delete button while it is enabled (renderApp() disables
\* it when there is no currentNote): app.js adds listeners to newNoteBtn
\* and saveBtn only, so no handler runs
DeleteBtnClick(t) ==
  /\ tab[t].started
  /\ Truthy(tab[t].currentNote)
  /\ deleteAsked' = tab[t].currentNote
  /\ UNCHANGED <<tab, date, born, lastSave>>
  /\ UNCHANGED <<storeVars, debounceVars, wrapperVars, listVars>>

\* the page is reloaded: the module's state, the form and the pending
\* timers are gone, the storage stays
Reload(t) ==
  /\ tab[t].started
  /\ tab' = [tab EXCEPT ![t] = NewTab]
  /\ deleteAsked' = Null
  /\ UNCHANGED <<date, born, lastSave>>
  /\ UNCHANGED <<storeVars, debounceVars, wrapperVars, listVars>>

\* time passes
DateAdvances ==
  /\ date < MaxDate
  /\ date' = date + 1
  /\ UNCHANGED <<tab, born, lastSave, deleteAsked>>
  /\ UNCHANGED <<storeVars, debounceVars, wrapperVars, listVars>>

\* one controller
MainTab == "tab1"
AppNext ==
  \/ DOMContentLoaded(MainTab)
  \/ Input(MainTab)
  \/ SaveCurrentNote(MainTab)
  \/ AutoSaveRuns(MainTab)
  \/ DeleteCurrentNote(MainTab)
  \/ CreateNewNote(MainTab)
  \/ SelectNote(MainTab)
  \/ StatusCleared(MainTab)
  \/ DateAdvances

\* a controller that creates and updates notes, and the clock
ListNext ==
  \/ ListCreate
  \/ ListUpdate
  \/ DateAdvances

\* the storage meets no fault
NoFault == {{}}

\* one controller as its user drives it, over a storage that meets no fault
UserNext ==
  \/ DOMContentLoadedUnder(MainTab, NoFault)
  \/ Input(MainTab)
  \/ SaveCurrentNoteUnder(MainTab, NoFault)
  \/ AutoSaveRunsUnder(MainTab, NoFault)
  \/ DeleteBtnClick(MainTab)
  \/ CreateNewNote(MainTab)
  \/ SelectNote(MainTab)
  \/ Reload(MainTab)
  \/ DateAdvances

\* two controllers that load, take input and save
TabsNext ==
  \/ \E t \in Tabs : DOMContentLoaded(t)
  \/ \E t \in Tabs : Input(t)
  \/ \E t \in Tabs : SaveCurrentNote(t)

Init == StoreInit /\ DebounceInit /\ WrappersInit /\ AppInit /\ ListInit
\* the application controller of one tab
SpecApp == Init /\ [][AppNext]_vars
\* the controller of one tab, its user and a storage without faults
SpecUser == Init /\ [][UserNext]_vars
\* the status element, the callers of showStatus and the host's timers
SpecStatus == Init /\ [][StatusNext]_vars
\* the notes list as creates and updates of the controller leave it
SpecList == Init /\ [][ListNext]_vars
\* the controllers of two tabs
SpecTabs == Init /\ [][TabsNext]_vars
\* the controller's two wrappers, their callers and the host's timers
SpecWrappers == Init /\ [][WrappersNext]_vars
\* the Note Store and a caller that backs up and restores
SpecBackup == Init /\ [][BackupNext]_vars
\* the Note Store and its callers
SpecStore == Init /\ [][StoreNext]_vars
\* one debounced wrapper, its callers and the host's timers
SpecDebounce == Init /\ [][DebounceNext]_vars

(***************************************************************************)
(* Properties of the Note Store                                            *)
(***************************************************************************)
\* what loadNotes() returns in the current state
LoadView == loadNotes(storage, {}).ret

RequiredFields == {"id", "title", "content"}
NoteFields     == RequiredFields \cup {"createdAt", "updatedAt"}

\* an object with string-typed id, title and content
HasStringFields(v) ==
  /\ v.t = "object"
  /\ \A k \in RequiredFields : k \in DOMAIN v.f /\ v.f[k].t = "string"

\* a Note of the data model: id, title, content and, when present, the two
\* timestamps, all strings
ValidNote(v) ==
  /\ HasStringFields(v)
  /\ DOMAIN v.f \subseteq NoteFields
  /\ \A k \in DOMAIN v.f : v.f[k].t = "string"
ValidCollection(v) == IsArray(v) /\ \A n \in 1..Len(v.a) : ValidNote(v.a[n])

\* a sequence of records with string id, title and content whose other
\* fields are strings or numbers
RecordSequence(v) ==
  /\ IsArray(v)
  /\ \A n \in 1..Len(v.a) :
       /\ HasStringFields(v.a[n])
       /\ \A k \in DOMAIN v.a[n].f :
            \/ v.a[n].f[k].t = "string"
            \/ v.a[n].f[k].t = "number" /\ v.a[n].f[k].n \notin {"NaN", "Infinity"}

HasLevel(level) == \E n \in 1..Len(console) : console[n].level = level

\* the value an operation returns when it fails
FailureValue(op) ==
  CASE op = "loadNotes"   -> EmptyArray
    [] op = "exportNotes" -> Text(<<LBrack, RBrack>>)
    [] OTHER              -> Bool(FALSE)

StoreOps == {"loadNotes", "saveNotes", "exportNotes", "importNotes", "clearNotes"}

\* C1: when saveNotes(C) returns true for a valid note collection C (any
\* length, any order), the next loadNotes() returns a collection equal to
\* C, element by element in the same order.
C1_LoadAfterSave ==
  (call.op = "saveNotes" /\ ret = Bool(TRUE) /\ ValidCollection(call.arg))
    => LoadView = call.arg

C1_Witness ==
  /\ call.op = "saveNotes"
  /\ ret = Bool(TRUE)
  /\ call.arg = Arr(<<N2, N1>>)
  /\ LoadView = Arr(<<N2, N1>>)

\* C3: no store operation lets a fault escape.  When a storage method or
\* the serializer throws, the operation returns its failure value ([] for
\* loadNotes, "[]" for exportNotes, false for the others) and the persisted
\* value is left as it was.
C3_SerializerThrows ==
  \/ call.op \in {"loadNotes", "exportNotes"}
       /\ Truthy(getItem(storage)) /\ ~JSONparse(storage.x).ok
  \/ call.op = "importNotes"
       /\ TypeOf(call.arg) = "string" /\ ~JSONparse(TextOf(call.arg)).ok
  \/ call.op = "saveNotes"
       /\ IsArray(call.arg) /\ JSONstringify(call.arg, FALSE).st = "throw"

C3_NoFaultEscapes ==
  /\ ~threw
  /\ (call.op \in StoreOps /\ (call.faults # {} \/ C3_SerializerThrows))
       => (ret = FailureValue(call.op) /\ ~changed)

C3_Witness ==
  /\ call.op = "clearNotes"
  /\ call.faults = {"removeItem"}
  /\ ret = Bool(FALSE)
  /\ HasLevel("error")
  /\ storage = Item(Compact(Arr(<<N1, N2>>)))

\* C4: without storage faults, loadNotes returns the collection given to
\* the most recent successful saveNotes or importNotes, or the empty
\* collection if clearNotes ran since then or nothing was ever written;
\* rejected saves, rejected imports, loads and exports change nothing.
C4_SequentialConsistency ==
  /\ lastWrite \in {"none", "clearNotes"} => LoadView = EmptyArray
  /\ (lastWrite \in {"saveNotes", "importNotes"} /\ RecordSequence(given))
       => LoadView = given
  /\ (call.op = "loadNotes" /\ call.faults = {} /\ lastWrite # "external"
        /\ RecordSequence(given))
       => ret = given
  /\ (\/ call.op \in {"loadNotes", "exportNotes"}
      \/ call.op \in {"saveNotes", "importNotes"} /\ ret = Bool(FALSE))
       => ~changed

C4_Witness ==
  /\ lastWrite = "importNotes"
  /\ given = Arr(<<ExtraNote, N1>>)
  /\ call.op = "saveNotes"
  /\ call.faults = {"setItem"}
  /\ call.arg = Arr(<<N2>>)
  /\ ret = Bool(FALSE)
  /\ LoadView = given

\* C5 (as claimed): loadNotes returns the empty collection when the key is
\* absent, when the stored text does not parse and when it parses to a
\* non-sequence; the absent key is not reported, the unparsable text
\* triggers a warning report.
C5_Original ==
  (call.op = "loadNotes" /\ call.faults = {}) =>
    /\ ~storage.present => (ret = EmptyArray /\ console = <<>>)
    /\ (storage.present /\ ~JSONparse(storage.x).ok)
         => (ret = EmptyArray /\ HasLevel("warn"))
    /\ (storage.present /\ JSONparse(storage.x).ok /\ ~IsArray(JSONparse(storage.x).v))
         => ret = EmptyArray

\* C5 (amended): as claimed, except that an empty stored text is treated
\* like an absent key: the empty collection is returned and nothing is
\* reported; every non-empty unparsable text triggers a warning report.
C5_LoadDefaults ==
  (call.op = "loadNotes" /\ call.faults = {}) =>
    /\ (~storage.present \/ storage.x = <<>>) => (ret = EmptyArray /\ console = <<>>)
    /\ (storage.present /\ storage.x # <<>> /\ ~JSONparse(storage.x).ok)
         => (ret = EmptyArray /\ HasLevel("warn") /\ ~HasLevel("error"))
    /\ (storage.present /\ JSONparse(storage.x).ok /\ ~IsArray(JSONparse(storage.x).v))
         => ret = EmptyArray

C5_Witness ==
  /\ call.op = "loadNotes"
  /\ call.faults = {}
  /\ storage = Item(<<Junk>>)
  /\ ret = EmptyArray
  /\ HasLevel("warn")

\* C6: saveNotes called with a non-sequence argument returns false, reports
\* a warning and performs no storage access; the persisted value is the
\* same before and after the call.
C6_SaveRejectsNonSequence ==
  (call.op = "saveNotes" /\ ~IsArray(call.arg)) =>
    /\ ret = Bool(FALSE)
    /\ HasLevel("warn")
    /\ accesses = <<>>
    /\ ~changed

C6_Witness ==
  /\ call.op = "saveNotes"
  /\ call.arg = Undefined
  /\ ret = Bool(FALSE)
  /\ storage = Item(Compact(Arr(<<N1>>)))

\* C7: importNotes returns false and leaves the persisted collection
\* unchanged for non-textual input, for text that does not parse, for text
\* that parses to a non-sequence, and for a sequence with at least one
\* element that is no object with string-typed id, title and content.
C7_Rejected(v) ==
  \/ TypeOf(v) # "string"
  \/ ~JSONparse(TextOf(v)).ok
  \/ ~IsArray(JSONparse(TextOf(v)).v)
  \/ \E n \in 1..Len(JSONparse(TextOf(v)).v.a) :
       ~HasStringFields(JSONparse(TextOf(v)).v.a[n])

C7_ImportRejects ==
  (call.op = "importNotes" /\ C7_Rejected(call.arg))
    => (ret = Bool(FALSE) /\ ~changed /\ accesses = <<>>)

C7_Witness ==
  /\ call.op = "importNotes"
  /\ call.arg = Text(Compact(Arr(<<N1, MissingFields>>)))
  /\ call.faults = {}
  /\ ret = Bool(FALSE)
  /\ storage = Item(Compact(Arr(<<N2>>)))

\* C8: importNotes on text encoding a sequence of records with string id,
\* title and content (with or without timestamps or extra fields) returns
\* true when the write succeeds, and loadNotes then returns exactly the
\* imported records in the same order, whatever was persisted before.
C8_ImportAccepts ==
  (call.op = "importNotes" /\ ~C7_Rejected(call.arg)) =>
    /\ ret = Bool(call.faults = {})
    /\ call.faults = {} =>
         /\ LoadView = JSONparse(TextOf(call.arg)).v
         /\ storage = Item(Compact(JSONparse(TextOf(call.arg)).v))
    /\ call.faults # {} => ~changed

C8_Witness ==
  /\ call.op = "importNotes"
  /\ call.arg = Text(Compact(Arr(<<ExtraNote, N1>>)))
  /\ ret = Bool(TRUE)
  /\ changed
  /\ LoadView = Arr(<<ExtraNote, N1>>)

\* C9: clearNotes removes the storage key and returns true, whether or not
\* the key was present; from then on loadNotes returns the empty collection
\* until the next successful saveNotes or importNotes.
C9_Clear ==
  /\ (call.op = "clearNotes" /\ call.faults = {})
       => (ret = Bool(TRUE) /\ ~storage.present /\ accesses = <<"removeItem">>)
  /\ lastWrite = "clearNotes" => (~storage.present /\ LoadView = EmptyArray)

C9_Witness ==
  /\ call.op = "clearNotes"
  /\ ret = Bool(TRUE)
  /\ changed
  /\ ~storage.present
  /\ LoadView = EmptyArray

\* C10: deserializing the text exportNotes returns yields the collection
\* loadNotes returns in the same state, and exportNotes does not modify
\* the persisted value.
C10_ExportMatchesLoad ==
  /\ (call.op = "exportNotes" /\ call.faults = {}) =>
       /\ ret.t = "text"
       /\ JSONparse(TextOf(ret)).ok
       /\ JSONparse(TextOf(ret)).v = LoadView
  /\ call.op = "exportNotes" => ~changed

C10_Witness ==
  /\ call.op = "exportNotes"
  /\ call.faults = {}
  /\ storage = Item(Compact(Arr(<<N2, N1>>)))
  /\ ret = Text(Pretty(Arr(<<N2, N1>>)))
  /\ LoadView = Arr(<<N2, N1>>)

\* the stored text parses to v
StoredValue == JSONparse(storage.x)

\* C11: exportNotes returns exactly "[]" when the store is empty (the key
\* is absent or holds the empty collection) and whenever the export fails
\* inside: a storage method or the serializer throws, the stored text does
\* not parse, or it parses to a non-sequence.
C11_ExportEmpty ==
  call.op = "exportNotes" =>
    /\ (~storage.present \/ storage.x = Compact(EmptyArray))
         => ret = Text(<<LBrack, RBrack>>)
    /\ lastWrite \in {"none", "clearNotes"} => ret = Text(<<LBrack, RBrack>>)
    /\ call.faults # {} => ret = Text(<<LBrack, RBrack>>)
    /\ (storage.present /\ (~StoredValue.ok \/ ~IsArray(StoredValue.v)))
         => ret = Text(<<LBrack, RBrack>>)

C11_Witness ==
  /\ call.op = "exportNotes"
  /\ call.faults = {}
  /\ storage = Item(Compact(NotArray))
  /\ ret = Text(<<LBrack, RBrack>>)

\* the stored text (for loadNotes) or the imported text (for importNotes)
\* does not parse
C12_Malformed ==
  \/ call.op = "loadNotes" /\ call.faults = {}
       /\ storage.present /\ ~StoredValue.ok
  \/ call.op = "importNotes"
       /\ TypeOf(call.arg) = "string" /\ ~JSONparse(TextOf(call.arg)).ok

\* the parsed value is no sequence, or an imported element lacks a string
\* id, title or content
C12_ShapeViolation ==
  \/ call.op = "loadNotes" /\ call.faults = {}
       /\ storage.present /\ StoredValue.ok /\ ~IsArray(StoredValue.v)
  \/ call.op = "importNotes" /\ TypeOf(call.arg) = "string"
       /\ JSONparse(TextOf(call.arg)).ok /\ C7_Rejected(call.arg)

IdsOf(v) == [n \in 1..Len(v.a) |-> v.a[n].f.id]
\* no two elements have the same id
UniqueIds(v) == \A m, n \in 1..Len(v.a) : v.a[m].f.id = v.a[n].f.id => m = n

\* v is a sequence of records with the ids of w, in the same order and number
SameIds(v, w) ==
  /\ RecordSequence(v)
  /\ IdsOf(v) = IdsOf(w)
  /\ UniqueIds(v) <=> UniqueIds(w)

\* C16 (as claimed): the persisted collection never contains two notes
\* with the same id, whatever was given to saveNotes and importNotes.
C16_Original ==
  RecordSequence(LoadView) => UniqueIds(LoadView)

\* C16 (amended): the store does not enforce unique ids.  After a
\* successful saveNotes or importNotes the persisted collection has the ids
\* of the collection it was given, in the same order and number: it is
\* free of duplicate ids exactly when the given collection is.
C16_IdsAsGiven ==
  (lastWrite \in {"saveNotes", "importNotes"} /\ RecordSequence(given)) =>
    SameIds(LoadView, given)

C16_Witness ==
  /\ call.op = "importNotes"
  /\ ret = Bool(TRUE)
  /\ given = Arr(<<N1, N1>>)
  /\ LoadView = Arr(<<N1, N1>>)
  /\ ~UniqueIds(LoadView)

\* this step imports, without a fault, the text that exportNotes has just
\* returned, without a fault, for a collection that saveNotes persisted
RoundTrip ==
  /\ call.op = "exportNotes"
  /\ call.faults = {}
  /\ lastWrite = "saveNotes"
  /\ call'.op = "importNotes"
  /\ call'.arg = ret
  /\ call'.faults = {}
\* the import returned true and loadNotes() returns what it returned before
Restored ==
  /\ ret' = Bool(TRUE)
  /\ loadNotes(storage', {}).ret = LoadView

\* C30 as stated: for every collection persisted by a successful
\* saveNotes, importNotes(exportNotes()) returns true and leaves the
\* collection loadNotes() returns unchanged.
C30_Original == [][RoundTrip => Restored]_vars

\* C30, amended: that holds when every element of the saved collection is
\* a record with string id, title and content; when saveNotes persisted
\* anything else (it checks only that it is given an array),
\* importNotes(exportNotes()) returns false and the persisted value stays
\* as it was.
C30_BackupRoundTrip ==
  [][RoundTrip =>
      IF \A n \in 1..Len(given.a) : HasStringFields(given.a[n])
      THEN Restored
      ELSE ret' = Bool(FALSE) /\ storage' = storage]_vars

\* two notes were saved, exported and imported again
C30_Witness ==
  /\ call.op = "importNotes"
  /\ call.faults = {}
  /\ call.arg = Text(Pretty(Arr(<<N2, N1>>)))
  /\ ret = Bool(TRUE)
  /\ given = Arr(<<N2, N1>>)
  /\ lastWrite = "importNotes"
  /\ LoadView = Arr(<<N2, N1>>)

(***************************************************************************)
(* Properties of debounce                                                  *)
(***************************************************************************)
\* every invocation arrives less than wait after the one before it
Burst == \A n \in 2..Len(calls) : calls[n].time - calls[n - 1].time < wait
LastCall == calls[Len(calls)]

\* C2: when each of the N >= 1 invocations of a wrapper arrives less than
\* wait after the previous one, func runs exactly once, with the arguments
\* of the last invocation and not before wait has elapsed since it: until
\* then one timer for that invocation is pending, afterwards none is.
C2_Coalescing ==
  (Len(calls) >= 1 /\ Burst) =>
    /\ Len(runs) <= 1
    /\ \A n \in 1..Len(runs) :
         /\ runs[n].args = LastCall.args
         /\ runs[n].time >= LastCall.time + wait
    /\ Len(runs) = 0 =>
         timers = {[id |-> timeoutId, due |-> LastCall.time + wait, args |-> LastCall.args]}
    /\ Len(runs) = 1 => timers = {}

C2_Witness ==
  /\ Len(calls) = 3
  /\ Burst
  /\ calls[1].time < calls[2].time
  /\ calls[2].time < calls[3].time
  /\ calls[2].args # calls[3].args
  /\ runs = <<[time |-> calls[3].time + wait, args |-> calls[3].args]>>

\* the executions that ran the closure of invocation n
Served(n) == {k \in 1..Len(served) : served[k].call = n}
\* the timer of the latest invocation
LastTimer == [id |-> Len(calls), due |-> LastCall.time + wait, args |-> LastCall.args]
\* the latest invocation is pending, or it has run once and nothing is pending
LastPendingOrRan ==
  \/ timers = {LastTimer} /\ Served(Len(calls)) = {}
  \/ timers = {} /\ Cardinality(Served(Len(calls))) = 1

\* C13: a wrapper built with wait = 0 never applies func inside the
\* invoking call: the call leaves the executions as they were and one timer
\* due at once; func then runs exactly once, from that timer, with the
\* arguments of the call.
C13_ZeroWaitDeferred ==
  /\ [][(wait = 0 /\ calls' # calls) => (runs' = runs /\ timers' # {})]_vars
  /\ []((built /\ wait = 0 /\ Len(calls) >= 1) =>
          /\ LastPendingOrRan
          /\ LastTimer.due = LastCall.time
          /\ \A k \in Served(Len(calls)) : runs[k].args = LastCall.args)

C13_Witness ==
  /\ built
  /\ wait = 0
  /\ Len(calls) = 1
  /\ timers = {}
  /\ runs = <<[time |-> calls[1].time, args |-> calls[1].args]>>

\* what C14 says of every behaviour, whenever the timers fire: at most one
\* run is pending, and it is the one of the latest invocation; every
\* execution runs the closure of the invocation that was the latest one at
\* that moment, with its arguments and not before wait has elapsed since
\* it; no invocation is executed twice.
C14_OnePending ==
  /\ Cardinality(timers) <= 1
  /\ \A t \in timers : t = LastTimer /\ timeoutId = t.id
  /\ Len(runs) <= Len(calls)
  /\ \A k \in 1..Len(served) :
       /\ served[k].call = served[k].latest
       /\ runs[k].args = calls[served[k].call].args
       /\ runs[k].time >= calls[served[k].call].time + wait
  /\ \A n \in 1..Len(calls) : Cardinality(Served(n)) <= 1

\* C14 (as claimed): in addition, an invocation that is not followed by
\* another one within wait always leads to an execution with its own
\* arguments.
C14_Original ==
  /\ C14_OnePending
  /\ \A n \in 1..(Len(calls) - 1) :
       calls[n + 1].time - calls[n].time > wait => Served(n) # {}

\* C14 (amended): in addition, the latest invocation is pending or has been
\* executed exactly once; an earlier invocation has been executed only if
\* its timer fired before the next invocation arrived, which cancels the
\* pending run even when it arrives later than wait (the host may run a
\* due timer late).
C14_LatestWins ==
  /\ C14_OnePending
  /\ Len(calls) >= 1 => LastPendingOrRan
  /\ \A n \in 1..(Len(calls) - 1) :
       \A k \in Served(n) : runs[k].time <= calls[n + 1].time

C14_Witness ==
  /\ Len(calls) = 2
  /\ calls[2].time - calls[1].time > wait
  /\ calls[1].args # calls[2].args
  /\ Served(1) = {}
  /\ Served(2) = {1}
  /\ runs[1].args = calls[2].args

\* the host has run every due timer on time: no timer is overdue, every
\* execution happened when its timer was due, and no invocation that came
\* wait or more after the one before it found that one still pending
Prompt ==
  /\ \A t \in timers : t.due >= now
  /\ \A k \in 1..Len(served) : runs[k].time = calls[served[k].call].time + wait
  /\ \A n \in 1..(Len(calls) - 1) :
       calls[n + 1].time - calls[n].time >= wait => Served(n) # {}
\* the executions that took place after invocation n and within wait of it:
\* the saves that persist the change of that input event in time
SavedInTime(n) ==
  {k \in 1..Len(served) : served[k].latest >= n /\ runs[k].time <= calls[n].time + wait}

PendingOf(w) == {t \in hostTimers : t.args[1] = w}
\* the other wrapper
Other(w) == CHOOSE v \in Wrappers : v # w

\* C15: independently built wrappers do not affect each other.  A step of
\* one wrapper (an invocation, or its timer firing) leaves the other
\* wrapper's timeoutId, pending run and executions as they were, and each
\* wrapper's pending run is the one of its own latest invocation, due its
\* own wait after it, whatever the interleaving.
C15_Independent ==
  /\ [][\A w \in Wrappers :
         event'.wrapper = w =>
           /\ timeoutIds'[Other(w)] = timeoutIds[Other(w)]
           /\ PendingOf(Other(w))' = PendingOf(Other(w))
           /\ applied'[Other(w)] = applied[Other(w)]]_vars
  /\ [](\A w \in Wrappers :
         /\ PendingOf(w) \subseteq
              {[id |-> timeoutIds[w], due |-> lastCall[w].time + WaitOf(w),
                args |-> <<w, lastCall[w].args>>]}
         /\ \A n \in 1..Len(applied[w]) : applied[w][n] \in ArgsOf(w))

\* debouncedSearch is invoked and runs while a run of autoSave is pending,
\* and autoSave then runs too
C15_Witness ==
  /\ lastCall["autoSave"].args = "none"
  /\ lastCall["debouncedSearch"].time > lastCall["autoSave"].time
  /\ lastCall["debouncedSearch"].time < lastCall["autoSave"].time + AutoSaveWait
  /\ Len(applied["debouncedSearch"]) >= 1
  /\ applied["autoSave"] = <<"none">>
  /\ event = [kind |-> "fire", wrapper |-> "autoSave"]

(***************************************************************************)
(* Properties of the application controller                                *)
(***************************************************************************)
\* the notes a controller holds, its currentNote included
HeldBy(t) ==
  {tab[t].notes[n] : n \in 1..Len(tab[t].notes)}
    \cup (IF Truthy(tab[t].currentNote) THEN {tab[t].currentNote} ELSE {})
\* the persisted notes
Persisted == {LoadView.a[n] : n \in 1..Len(LoadView.a)}
\* note v is the n-th note created, with the createdAt it got then
AsCreated(v, n) ==
  /\ DOMAIN v.f = NoteFields
  /\ v.f.id = Str(NoteId(n))
  /\ v.f.createdAt = Str(born[n])
\* this step the controller of tab t called saveNotes in saveCurrentNote
SavedBy(t) ==
  /\ lastSave'.n = lastSave.n + 1
  /\ lastSave'.tab = t
  /\ tab'[t].status = "Note saved!"

\* C17: a note's id and createdAt never change after its creation.  Every
\* note held by a controller has the five fields, the id and the createdAt
\* it was created with, and a save of an existing note leaves currentNote
\* with the same id and createdAt, whatever the number of updates.
C17_IdAndCreatedAtKept ==
  /\ [](\A t \in Tabs : \A v \in HeldBy(t) :
          \E n \in 1..Len(born) : AsCreated(v, n))
  /\ [][\A t \in Tabs :
         (SavedBy(t) /\ Truthy(tab[t].currentNote)) =>
           /\ born' = born
           /\ tab'[t].currentNote.f.id = tab[t].currentNote.f.id
           /\ tab'[t].currentNote.f.createdAt = tab[t].currentNote.f.createdAt]_vars

\* a note updated, later than it was created, and persisted
C17_Witness ==
  /\ lastSave = [tab |-> MainTab, ok |-> TRUE, n |-> 2]
  /\ Len(born) = 1
  /\ tab[MainTab].notes = <<tab[MainTab].currentNote>>
  /\ tab[MainTab].currentNote.f.createdAt = Str(toISOString(0))
  /\ tab[MainTab].currentNote.f.updatedAt = Str(toISOString(1))
  /\ tab[MainTab].currentNote.f.content = Str("x")
  /\ Persisted = {tab[MainTab].currentNote}

C20_FailureShown ==
  \A t \in Tabs :
    (lastSave.tab = t /\ ~lastSave.ok)
      => tab[t].status \notin {"Note saved!", "Note deleted!"}

\* C21: notes persist across a reload.  With a storage that meets no fault,
\* whatever the user does (new note, input, save, auto-save, select), the
\* collection loadNotes() returns is the list the controller holds once
\* init() has run, a save included; so the list held at a reload is the
\* persisted one, and init() after the reload restores exactly it.
C21_PersistAcrossReload ==
  /\ [](tab[MainTab].started => LoadView = Arr(tab[MainTab].notes))
  /\ [][(tab[MainTab].started /\ ~tab'[MainTab].started)
          => loadNotes(storage', {}).ret = Arr(tab[MainTab].notes)]_vars
  /\ [][(~tab[MainTab].started /\ tab'[MainTab].started)
          => tab'[MainTab].notes = LoadView.a]_vars

\* two notes were saved, the page was reloaded and init() has restored both
C21_Witness ==
  /\ tab[MainTab].started
  /\ tab[MainTab].status = "App ready!"
  /\ lastSave = [tab |-> MainTab, ok |-> TRUE, n |-> 2]
  /\ Len(tab[MainTab].notes) = 2
  /\ tab[MainTab].notes[1].f.id = Str(NoteId(2))
  /\ tab[MainTab].notes[2].f.id = Str(NoteId(1))
  /\ LoadView = Arr(tab[MainTab].notes)

\* C22: a click on the Delete button with a note selected removes that note
\* from the controller's list and from the persisted collection and clears
\* the selection and the editor.
C22_DeleteRemoves ==
  Truthy(deleteAsked) =>
    /\ findIndex(tab[MainTab].notes, Prop(deleteAsked, "id")) = 0
    /\ findIndex(LoadView.a, Prop(deleteAsked, "id")) = 0
    /\ tab[MainTab].currentNote = Null
    /\ tab[MainTab].noteTitle = ""
    /\ tab[MainTab].noteBody = ""

\* title and content of the editor of c are both empty after trimming
EmptyEditor(c) == Trim(c.noteTitle) = "" /\ Trim(c.noteBody) = ""
\* this step the timer of autoSave of tab t fired
AutoSaveFired(t) == tab[t].autoSave /\ ~tab'[t].autoSave /\ tab'[t].started
\* this step the text of the editor of tab t was saved and persisted to the
\* note it belongs to: the selected one, or a new one when none was selected
TextPersisted(t) ==
  /\ SavedBy(t)
  /\ lastSave'.ok
  /\ Truthy(tab'[t].currentNote)
  /\ Prop(tab'[t].currentNote, "title") = Str(Trim(tab[t].noteTitle))
  /\ Prop(tab'[t].currentNote, "content") = Str(Trim(tab[t].noteBody))
  /\ Truthy(tab[t].currentNote) =>
       Prop(tab'[t].currentNote, "id") = Prop(tab[t].currentNote, "id")
  /\ \E n \in 1..Len(loadNotes(storage', {}).ret.a) :
       loadNotes(storage', {}).ret.a[n] = tab'[t].currentNote
\* this step left the notes and the storage of tab t alone
NothingSaved(t) ==
  /\ lastSave' = lastSave
  /\ storage' = storage
  /\ tab'[t].notes = tab[t].notes
\* and the selection and the editor too
NothingDone(t) ==
  /\ NothingSaved(t)
  /\ tab'[t].currentNote = tab[t].currentNote
  /\ tab'[t].noteTitle = tab[t].noteTitle
  /\ tab'[t].noteBody = tab[t].noteBody

\* C23 as stated: when the timer of autoSave fires while the editor differs
\* from the selected note (or is non-empty with no note selected),
\* saveCurrentNote persists the text to that note and shows 'Note saved!'.
C23_Original ==
  [][(AutoSaveFired(MainTab) /\ hasUnsavedChanges(tab[MainTab]))
       => TextPersisted(MainTab)]_vars

\* C23, amended: no handler that changes the editor saves anything; when the
\* timer of autoSave fires, one pending run is consumed and saveCurrentNote
\* runs only if there are unsaved changes: it persists the trimmed text to
\* the selected note (to a new note when none is selected) and shows
\* 'Note saved!' unless title and content are both empty after trimming,
\* and then it shows 'Cannot save empty note' and saves nothing.
C23_AutoSaveAfterPause ==
  /\ [][(/\ tab'[MainTab].started
          /\ \/ tab'[MainTab].noteTitle # tab[MainTab].noteTitle
             \/ tab'[MainTab].noteBody # tab[MainTab].noteBody)
         => NothingSaved(MainTab)]_vars
  /\ [][AutoSaveFired(MainTab) =>
         IF ~hasUnsavedChanges(tab[MainTab])
         THEN NothingDone(MainTab) /\ tab'[MainTab].status = tab[MainTab].status
         ELSE IF EmptyEditor(tab[MainTab])
         THEN NothingDone(MainTab) /\ tab'[MainTab].status = "Cannot save empty note"
         ELSE TextPersisted(MainTab) /\ lastSave'.n = lastSave.n + 1]_vars

\* the first note was edited later and no run of autoSave is pending: the
\* edit is persisted to that note
C23_Witness ==
  /\ ~tab[MainTab].autoSave
  /\ tab[MainTab].status = "Note saved!"
  /\ lastSave = [tab |-> MainTab, ok |-> TRUE, n |-> 2]
  /\ Len(born) = 1
  /\ tab[MainTab].noteBody = "x"
  /\ Prop(tab[MainTab].currentNote, "content") = Str("x")
  /\ Prop(tab[MainTab].currentNote, "updatedAt") = Str(toISOString(1))
  /\ LoadView = Arr(<<tab[MainTab].currentNote>>)

\* text typed into the editor of tab t waits for the pending run of autoSave
DraftPending(t) ==
  /\ tab[t].started
  /\ tab[t].autoSave
  /\ hasUnsavedChanges(tab[t])
  /\ ~EmptyEditor(tab[t])
\* this step the user selected another note or started a new one
Switched(t) ==
  /\ tab'[t].started
  /\ lastSave' = lastSave
  /\ \/ tab'[t].currentNote # tab[t].currentNote
     \/ /\ tab'[t].status = "Ready to create new note"
        /\ tab'[t].noteTitle = "" /\ tab'[t].noteBody = ""
\* after this step the text that was in the editor of tab t is persisted to
\* the note it was typed into
DraftPersisted(t) ==
  \E n \in 1..Len(loadNotes(storage', {}).ret.a) :
    /\ Prop(loadNotes(storage', {}).ret.a[n], "title") = Str(Trim(tab[t].noteTitle))
    /\ Prop(loadNotes(storage', {}).ret.a[n], "content") = Str(Trim(tab[t].noteBody))
    /\ Truthy(tab[t].currentNote) =>
         Prop(loadNotes(storage', {}).ret.a[n], "id") = Prop(tab[t].currentNote, "id")

\* C27: selecting another note or starting a new note while a run of
\* autoSave is pending does not lose the typed text: once the switch is
\* made, the text typed before it is persisted to the note it was typed
\* into.
C27_DraftKept ==
  [][(DraftPending(MainTab) /\ Switched(MainTab)) => DraftPersisted(MainTab)]_vars

\* this step was an input event in the editor of tab t (the form then
\* holds what the user typed, untrimmed)
InputStep(t) ==
  /\ tab[t].started /\ tab'[t].started
  /\ tab'[t].noteTitle \in EditorTitles
  /\ <<tab'[t].noteTitle, tab'[t].noteBody>> # <<tab[t].noteTitle, tab[t].noteBody>>
\* how many notes of the list ns have the id of note v
Copies(ns, v) == Cardinality({n \in 1..Len(ns) : Prop(ns[n], "id") = Prop(v, "id")})

\* C28: editing one new note never creates duplicates.  No two notes of
\* the list share an id and the selected note is in the list; a save with
\* no note selected adds one note with a new id and selects it; an input
\* event, a run of autoSave or a save with a note selected keeps that note
\* selected, and the save replaces it where it is without adding a note;
\* no other step of a running controller changes the list.
C28_NoDuplicates ==
  /\ [](/\ \A n \in 1..Len(tab[MainTab].notes) :
             Copies(tab[MainTab].notes, tab[MainTab].notes[n]) = 1
        /\ Truthy(tab[MainTab].currentNote) =>
             \E n \in 1..Len(tab[MainTab].notes) :
               tab[MainTab].notes[n] = tab[MainTab].currentNote)
  /\ [][(SavedBy(MainTab) /\ ~Truthy(tab[MainTab].currentNote)) =>
         /\ Len(tab'[MainTab].notes) = Len(tab[MainTab].notes) + 1
         /\ Truthy(tab'[MainTab].currentNote)
         /\ Copies(tab[MainTab].notes, tab'[MainTab].currentNote) = 0]_vars
  /\ [][(/\ Truthy(tab[MainTab].currentNote)
          /\ (SavedBy(MainTab) \/ AutoSaveFired(MainTab) \/ InputStep(MainTab))) =>
         /\ Len(tab'[MainTab].notes) = Len(tab[MainTab].notes)
         /\ Truthy(tab'[MainTab].currentNote)
         /\ Prop(tab'[MainTab].currentNote, "id") = Prop(tab[MainTab].currentNote, "id")]_vars
  /\ [][(tab[MainTab].started /\ tab'[MainTab].started /\ ~SavedBy(MainTab)) =>
         tab'[MainTab].notes = tab[MainTab].notes]_vars

\* a new note was saved with a body only, then given a title, and the run
\* of autoSave saved it again: the list holds the one note
C28_Witness ==
  /\ lastSave = [tab |-> MainTab, ok |-> TRUE, n |-> 2]
  /\ ~tab[MainTab].autoSave
  /\ Len(born) = 1
  /\ Len(tab[MainTab].notes) = 1
  /\ tab[MainTab].notes[1] = tab[MainTab].currentNote
  /\ Prop(tab[MainTab].currentNote, "title") = Str("A")
  /\ Prop(tab[MainTab].currentNote, "content") = Str("x")
  /\ LoadView = Arr(tab[MainTab].notes)

\* title and content of note v are both empty
EmptyNote(v) == Prop(v, "title") = Str("") /\ Prop(v, "content") = Str("")

\* C29: saveCurrentNote with title and content both empty after trimming
\* changes nothing but the status.  While the editor is empty in that
\* sense no step of a running controller saves or changes the list; the
\* status 'Cannot save empty note' appears only from such an editor, and
\* the step that shows it leaves the list, the selection, the editor and
\* the storage as they were; no note held or persisted has an empty title
\* and an empty content.
C29_EmptyNotSaved ==
  /\ [][(tab[MainTab].started /\ tab'[MainTab].started /\ EmptyEditor(tab[MainTab]))
         => NothingSaved(MainTab)]_vars
  /\ [][(/\ tab'[MainTab].status = "Cannot save empty note"
          /\ tab[MainTab].status # "Cannot save empty note")
         => (EmptyEditor(tab[MainTab]) /\ NothingDone(MainTab))]_vars
  /\ [](\A v \in HeldBy(MainTab) \cup Persisted : ~EmptyNote(v))

\* a note is selected, the user has cleared the editor and a save was
\* asked for: the note is held and persisted as it was
C29_Witness ==
  /\ tab[MainTab].status = "Cannot save empty note"
  /\ EmptyEditor(tab[MainTab])
  /\ Truthy(tab[MainTab].currentNote)
  /\ Prop(tab[MainTab].currentNote, "content") = Str("x")
  /\ lastSave = [tab |-> MainTab, ok |-> TRUE, n |-> 1]
  /\ LoadView = Arr(<<tab[MainTab].currentNote>>)

(***************************************************************************)
(* Properties of showStatus                                                *)
(***************************************************************************)
\* C25: a message stays for its full duration unless a newer message
\* replaces it: once showStatus has been called, the status element is
\* empty only when the duration of the last message has elapsed since it
\* was shown.
C25_FullDuration ==
  (shown.id # NoTimer /\ statusElement.textContent = "")
    => elapsed >= shown.at + shown.duration

(***************************************************************************)
(* Properties of renderNotesList                                           *)
(***************************************************************************)
\* C26: the rendered list shows the notes it was given, newest first: the
\* items run in non-increasing order of the notes' updatedAt, whatever the
\* order of the notes in the collection.
C26_NewestFirst ==
  /\ Len(rendered) = Len(listed)
  /\ \A i \in 1..Len(rendered) : \A j \in (i + 1)..Len(rendered) :
       NewDate(rendered[i].datetime).ms >= NewDate(rendered[j].datetime).ms

====
